---- MODULE Spec2Model ----
(***************************************************************************)
(* The persistent task graph of src/src/code/task_system.py: one JSON      *)
(* record per task in tasks_dir, the in-memory id counter of a TaskManager *)
(* and the create / update operations with their reconciliation pass.      *)
(* Spec is one manager and one caller.  SpecTools adds the read-only tool  *)
(* functions, SpecTwo a second manager on the same directory and SpecRace  *)
(* runs two update calls step by step on one store.  SpecBackground is     *)
(* the BackgroundManager of background_tasks.py with its worker threads    *)
(* and main's injection of their results, SpecRetry is stream_with_retry   *)
(* of tools.py.                                                            *)
(*                                                                         *)
(* blockedBy and blocks are lists in the code.  Every list the code writes *)
(* is sorted and duplicate-free (create writes [], _normalize_ids returns  *)
(* sorted({..}), update passes sorted(set), _sync_reverse_edges writes     *)
(* sorted(set(..)) and _clear_dependency filters a sorted list), so a list *)
(* is determined by its set of elements and is modelled as that set.       *)
(***************************************************************************)
EXTENDS Integers, FiniteSets, Sequences, TLC

\* ------------------------------------------------------------------ bounds
\* create is enabled while the id counter is at most MaxTasks
MaxTasks == 2
\* largest number of ids in one blocked_by / blocks / add_* argument
MaxAdd == 2
\* largest number of ids named in the edge arguments of one update call
MaxEdgeIds == 2
\* largest number of ids named in the edge arguments of an update call that
\* also sets a status
MaxStatusEdgeIds == 1
\* background tasks BackgroundManager.run accepts
MaxBackground == 3
\* chunks agent.stream yields in one attempt
MaxChunks == 3

VARIABLES
    files,      \* tasks_dir: task id -> the record stored in task_<id>.json
    next_id,    \* TaskManager._next_id
    last,       \* the last call made on the manager and how it ended
    peer_next_id,   \* _next_id of a second TaskManager on the same tasks_dir,
                    \* 0 while no second manager has been constructed
    threads,    \* per calling thread: where it is inside update, and the
                \* local variables of that call
    _tasks,     \* BackgroundManager._tasks: task id -> BackgroundTaskRecord
    _notification_queue,    \* BackgroundManager._notification_queue
    workers,    \* per background task: where its thread is inside _execute,
                \* and the status it has computed
    history,    \* main's history, as far as background results are injected
    injected_count,     \* what the last inject_background_notifications returned
    checked,    \* what the last BackgroundManager.check returned
    retry       \* the stream_with_retry call: its position and its locals

bgVars == <<_tasks, _notification_queue, workers, history, injected_count, checked>>

vars == <<files, next_id, last, peer_next_id, threads, bgVars, retry>>

\* ------------------------------------------------------------ input values
\* Python's None for an optional argument
None == "<None>"

VALID_STATUS == {"pending", "in_progress", "completed"}

\* ids a caller may name: the ids create can assign, and one more that never
\* has a record
ArgIds == 1..(MaxTasks + 1)

SubjectArgs == {"", "   ", " A "}
DescriptionArgs == {" d "}
CreateOwnerArgs == {" bob "}
UpdateOwnerArgs == {None, " bob "}
StatusArgs == {None, "pending", "in_progress", " Completed ", "done"}

\* str.strip() on the strings the model passes in
strip(s) ==
    CASE s = "   " -> ""
      [] s = " A " -> "A"
      [] s = " d " -> "d"
      [] s = " bob " -> "bob"
      [] s = " Completed " -> "Completed"
      [] s = " ls " -> "ls"
      [] s = " reboot " -> "reboot"
      [] OTHER -> s

\* str.lower() on the strings the model passes in
lower(s) ==
    CASE s = "Completed" -> "completed"
      [] OTHER -> s

IdSets(n) == {S \in SUBSET ArgIds : Cardinality(S) <= n}

\* the edge arguments of one update call: at most n ids named in all
EdgeArgs(n) ==
    {e \in [add_blocked_by : IdSets(n), add_blocks : IdSets(n),
            remove_blocked_by : IdSets(n), remove_blocks : IdSets(n)] :
        Cardinality(e.add_blocked_by) + Cardinality(e.add_blocks)
          + Cardinality(e.remove_blocked_by) + Cardinality(e.remove_blocks) <= n}

\* the update calls the model makes: edge changes alone (up to MaxEdgeIds ids),
\* a status with edge changes (up to MaxStatusEdgeIds ids), an owner with or
\* without a status.  The id that never has a record is the target of the
\* calls without edge arguments only: update raises on it in its first
\* statement, whatever the other arguments are
Call(t, s, o, e) ==
    [task_id |-> t, status |-> s, owner |-> o,
     add_blocked_by |-> e.add_blocked_by, add_blocks |-> e.add_blocks,
     remove_blocked_by |-> e.remove_blocked_by, remove_blocks |-> e.remove_blocks]

UpdateCalls ==
    {Call(t, None, None, e) : t \in 1..MaxTasks, e \in EdgeArgs(MaxEdgeIds)}
    \cup {Call(t, s, None, e) : t \in 1..MaxTasks, s \in StatusArgs, e \in EdgeArgs(MaxStatusEdgeIds)}
    \cup {Call(t, s, o, e) : t \in ArgIds, s \in StatusArgs, o \in UpdateOwnerArgs, e \in EdgeArgs(0)}

\* --------------------------------------------------------------- the store
\* _max_id with a scan that matches no file name: the maximum stays 0
_max_id_no_match(f) == 0

\* TaskManager._max_id
_max_id(f) ==
    IF DOMAIN f = {} THEN 0
    ELSE CHOOSE m \in DOMAIN f : \A i \in DOMAIN f : i <= m

\* _ensure_task_exists with a check that never raises
_ensure_task_exists_unchecked(f, task_id) == TRUE

\* TaskManager._ensure_task_exists: TRUE when it returns, FALSE when it raises
_ensure_task_exists(f, task_id) == task_id \in DOMAIN f

\* TaskManager._normalize_ids: the ids it returns. sorted({int(v) for v in
\* values}) is the set of the argument's elements, which is how the model
\* passes the argument in
_normalize_ids(values) == values

\* _normalize_ok with a loop that checks the smallest id only
_normalize_ok_first_only(f, values) ==
    \A v \in values : (\A w \in values : v <= w) => _ensure_task_exists(f, v)

\* TaskManager._normalize_ids: TRUE when it returns, FALSE when it raises
\* "Task <id> not found"
_normalize_ok(f, values) == \A v \in _normalize_ids(values) : _ensure_task_exists(f, v)

\* TaskManager._save
_save(f, task) == [i \in DOMAIN f \cup {task.id} |-> IF i = task.id THEN task ELSE f[i]]

\* _clear_dependency filtering the completed id out of blocks instead of
\* blockedBy
_clear_dependency_wrong_field(f, completed_id) ==
    [i \in DOMAIN f |-> [f[i] EXCEPT !.blocks = @ \ {completed_id}]]

\* _clear_dependency that also hands each record it rewrites back to pending
_clear_dependency_resetting(f, completed_id) ==
    [i \in DOMAIN f |->
        IF completed_id \in f[i].blockedBy
        THEN [f[i] EXCEPT !.blockedBy = @ \ {completed_id}, !.status = "pending"]
        ELSE f[i]]

\* TaskManager._clear_dependency
_clear_dependency(f, completed_id) ==
    [i \in DOMAIN f |-> [f[i] EXCEPT !.blockedBy = @ \ {completed_id}]]

\* _sync_reverse_edges without the loop over the other tasks
_sync_reverse_edges_own_only(f, task_id, blocked_by, blocks) ==
    IF task_id \notin DOMAIN f THEN f
    ELSE [f EXCEPT ![task_id] = [@ EXCEPT !.blockedBy = blocked_by, !.blocks = blocks]]

\* TaskManager._sync_reverse_edges
_sync_reverse_edges(f, task_id, blocked_by, blocks) ==
    IF task_id \notin DOMAIN f THEN f
    ELSE [other_id \in DOMAIN f |->
            IF other_id = task_id
            THEN [f[task_id] EXCEPT !.blockedBy = blocked_by, !.blocks = blocks]
            ELSE LET other_task == f[other_id]
                     should_block_other == other_id \in blocks
                     has_block_other == task_id \in other_task.blockedBy
                     other_blocked_by ==
                         IF should_block_other /\ ~has_block_other
                         THEN other_task.blockedBy \cup {task_id}
                         ELSE IF ~should_block_other /\ has_block_other
                         THEN other_task.blockedBy \ {task_id}
                         ELSE other_task.blockedBy
                     should_be_blocked_by_other == other_id \in blocked_by
                     has_reverse_block == task_id \in other_task.blocks
                     other_blocks ==
                         IF should_be_blocked_by_other /\ ~has_reverse_block
                         THEN other_task.blocks \cup {task_id}
                         ELSE IF ~should_be_blocked_by_other /\ has_reverse_block
                         THEN other_task.blocks \ {task_id}
                         ELSE other_task.blocks
                 IN [other_task EXCEPT !.blockedBy = other_blocked_by,
                                       !.blocks = other_blocks]]

\* _sync_other that leaves the other task's blocks as they were
_sync_other_blocked_by_side(other_task, other_id, task_id, blocked_by, blocks) ==
    [other_task EXCEPT !.blockedBy = IF other_id \in blocks THEN @ \cup {task_id}
                                     ELSE @ \ {task_id}]

\* _sync_reverse_edges, lines 87-111: the record of one other task after the
\* pass, computed from the copy of it in all_tasks
_sync_other(other_task, other_id, task_id, blocked_by, blocks) ==
    LET should_block_other == other_id \in blocks
        has_block_other == task_id \in other_task.blockedBy
        other_blocked_by ==
            IF should_block_other /\ ~has_block_other
            THEN other_task.blockedBy \cup {task_id}
            ELSE IF ~should_block_other /\ has_block_other
            THEN other_task.blockedBy \ {task_id}
            ELSE other_task.blockedBy
        should_be_blocked_by_other == other_id \in blocked_by
        has_reverse_block == task_id \in other_task.blocks
        other_blocks ==
            IF should_be_blocked_by_other /\ ~has_reverse_block
            THEN other_task.blocks \cup {task_id}
            ELSE IF ~should_be_blocked_by_other /\ has_reverse_block
            THEN other_task.blocks \ {task_id}
            ELSE other_task.blocks
    IN [other_task EXCEPT !.blockedBy = other_blocked_by, !.blocks = other_blocks]

\* _sync_changed with a changed flag that the blocks branch does not set
_sync_changed_blocked_by_only(f, task_id, blocked_by, blocks, other_id) ==
    (other_id \in blocks) # (task_id \in f[other_id].blockedBy)

\* _sync_reverse_edges, lines 89-109: the changed flag of one other task
_sync_changed(f, task_id, blocked_by, blocks, other_id) ==
    LET other_task == f[other_id]
        should_block_other == other_id \in blocks
        has_block_other == task_id \in other_task.blockedBy
        should_be_blocked_by_other == other_id \in blocked_by
        has_reverse_block == task_id \in other_task.blocks
    IN \/ should_block_other /\ ~has_block_other
       \/ ~should_block_other /\ has_block_other
       \/ should_be_blocked_by_other /\ ~has_reverse_block
       \/ ~should_be_blocked_by_other /\ has_reverse_block

\* _sync_reverse_edges, lines 81 and 109-112: the ids of the records it saves
_sync_saved(f, task_id, blocked_by, blocks) ==
    IF task_id \notin DOMAIN f THEN {}
    ELSE {task_id} \cup {other_id \in DOMAIN f \ {task_id} :
                            _sync_changed(f, task_id, blocked_by, blocks, other_id)}

\* the record create writes before it looks at blocked_by / blocks
_new_task(task_id, subject, description, owner) ==
    [id |-> task_id, subject |-> strip(subject), description |-> strip(description),
     status |-> "pending", blockedBy |-> {}, blocks |-> {}, owner |-> strip(owner)]

\* _subject_ok testing the subject without strip()
_subject_ok_unstripped(subject) == subject # ""

\* create, line 122: TRUE when the subject passes, FALSE when create raises
\* "subject is required"
_subject_ok(subject) == strip(subject) # ""

\* create taking its id from a scan of tasks_dir instead of the counter
_task_id_rescanned(f, nid) == _max_id(f) + 1

\* create, line 125: task_id = self._next_id
_task_id(f, nid) == nid

\* TaskManager.create: the store, the counter and the outcome it leaves
create(f, nid, subject, description, blocked_by, blocks, owner) ==
    IF ~_subject_ok(subject)
    THEN [files |-> f, next_id |-> nid, err |-> "Validation", id |-> 0]
    ELSE LET task_id == _task_id(f, nid)
             saved == _save(f, _new_task(task_id, subject, description, owner))
         IN IF ~_normalize_ok(saved, blocked_by) \/ ~_normalize_ok(saved, blocks)
            THEN [files |-> saved, next_id |-> nid + 1, err |-> "NotFound", id |-> task_id]
            ELSE [files |-> _sync_reverse_edges(saved, task_id,
                                                _normalize_ids(blocked_by),
                                                _normalize_ids(blocks)),
                  next_id |-> nid + 1, err |-> "ok", id |-> task_id]

\* update, lines 156-160: the status after strip().lower()
_normalized_status(status) == IF status = None THEN None ELSE lower(strip(status))

\* _status_ok accepting any status string
_status_ok_any(normalized_status) == TRUE

\* update, lines 157-160: TRUE when the status passes, FALSE when update raises
\* "Invalid status"
_status_ok(normalized_status) ==
    normalized_status = None \/ normalized_status \in VALID_STATUS

\* _new_blocked_by without the value != task_id test
_new_blocked_by_unfiltered(current, task_id, add_blocked_by, remove_blocked_by) ==
    (current.blockedBy \cup _normalize_ids(add_blocked_by)) \ remove_blocked_by

\* _new_blocks with the discard loop run before the add loop
_new_blocks_remove_first(current, task_id, add_blocks, remove_blocks) ==
    (current.blocks \ remove_blocks) \cup (_normalize_ids(add_blocks) \ {task_id})

\* update, lines 162-175: the edge sets handed to _sync_reverse_edges
_new_blocked_by(current, task_id, add_blocked_by, remove_blocked_by) ==
    (current.blockedBy \cup (_normalize_ids(add_blocked_by) \ {task_id})) \ remove_blocked_by

_new_blocks(current, task_id, add_blocks, remove_blocks) ==
    (current.blocks \cup (_normalize_ids(add_blocks) \ {task_id})) \ remove_blocks

\* _apply_fields refusing a status that is behind the current one on the
\* documented path
_apply_fields_forward_only(task, normalized_status, owner) ==
    [task EXCEPT !.status = IF /\ normalized_status # None
                               /\ normalized_status \in {"pending", "in_progress"}
                                    => task.status = "pending"
                            THEN normalized_status ELSE @,
                 !.owner = IF owner # None THEN strip(owner) ELSE @]

\* update, lines 180-183: status and owner applied to the reloaded record
_apply_fields(task, normalized_status, owner) ==
    [task EXCEPT !.status = IF normalized_status # None THEN normalized_status ELSE @,
                 !.owner = IF owner # None THEN strip(owner) ELSE @]

\* _is_completed reading the status loaded at the start of the call
_is_completed_stale(current, task) == current.status = "completed"

\* update, line 186: whether unblock propagation runs
_is_completed(current, task) == task.status = "completed"

\* TaskManager.update: the store and the outcome it leaves
update(f, task_id, status, add_blocked_by, add_blocks, remove_blocked_by, remove_blocks, owner) ==
    IF task_id \notin DOMAIN f THEN [files |-> f, err |-> "NotFound"]
    ELSE IF ~_status_ok(_normalized_status(status))
    THEN [files |-> f, err |-> "Validation"]
    ELSE IF ~_normalize_ok(f, add_blocked_by) \/ ~_normalize_ok(f, add_blocks)
    THEN [files |-> f, err |-> "NotFound"]
    ELSE LET current == f[task_id]
             synced == _sync_reverse_edges(f, task_id,
                          _new_blocked_by(current, task_id, add_blocked_by, remove_blocked_by),
                          _new_blocks(current, task_id, add_blocks, remove_blocks))
             task == _apply_fields(synced[task_id], _normalized_status(status), owner)
             saved == _save(synced, task)
         IN [files |-> IF _is_completed(current, task)
                       THEN _clear_dependency(saved, task_id)
                       ELSE saved,
             err |-> "ok"]

\* TaskManager.get: the record it returns, or the error _load raises
get(f, task_id) ==
    IF task_id \in DOMAIN f THEN [err |-> "ok", task |-> f[task_id]]
    ELSE [err |-> "NotFound", task |-> None]

\* TaskManager.list_all, with each group as the set of its tasks' ids
list_all(f) ==
    [tasks |-> DOMAIN f,
     ready |-> {t \in DOMAIN f : f[t].status = "pending" /\ f[t].blockedBy = {}},
     blocked |-> {t \in DOMAIN f : f[t].status = "pending" /\ f[t].blockedBy # {}},
     in_progress |-> {t \in DOMAIN f : f[t].status = "in_progress"},
     completed |-> {t \in DOMAIN f : f[t].status = "completed"},
     count |-> Cardinality(DOMAIN f)]

\* a tool function whose except clause does not match ValueError: the
\* manager's error leaves the tool as an exception
_tool_result_uncaught(err) == IF err = "ok" THEN "json" ELSE "raised"

\* build_task_tools, the try / except Exception of each tool function: what
\* the tool returns for a manager call that ended with err - _to_json of the
\* manager's result, or the string "Error: <message>"
_tool_result(err) == IF err = "ok" THEN "json" ELSE "Error: "

\* the order of the documented path pending -> in_progress -> completed
StatusRank(status) ==
    CASE status = "pending" -> 0
      [] status = "in_progress" -> 1
      [] OTHER -> 2

\* what a successful update call did, for the record kept in last: it named
\* its own task among the ids to add, it named for removal an id that the edge
\* set did not hold, it moved the status backwards, or it left the task's edge
\* sets as they were
_note(current, c) ==
    LET adds == c.add_blocked_by \cup c.add_blocks
        absent == (c.remove_blocked_by \ (current.blockedBy \cup c.add_blocked_by))
                    \cup (c.remove_blocks \ (current.blocks \cup c.add_blocks))
    IN CASE c.task_id \in adds -> "self"
         [] absent # {} -> "remove_absent"
         [] /\ _normalized_status(c.status) # None
            /\ StatusRank(_normalized_status(c.status)) < StatusRank(current.status) -> "back"
         [] /\ _new_blocked_by(current, c.task_id, c.add_blocked_by, c.remove_blocked_by)
                  = current.blockedBy
            /\ _new_blocks(current, c.task_id, c.add_blocks, c.remove_blocks)
                  = current.blocks -> "same_edges"
         [] OTHER -> ""

\* ----------------------------------------------------------------- actions
\* a call that names no edge and no owner: update(task_id, status=...)
Bare(add_blocked_by, add_blocks, remove_blocked_by, remove_blocks, owner) ==
    /\ add_blocked_by = {} /\ add_blocks = {}
    /\ remove_blocked_by = {} /\ remove_blocks = {}
    /\ owner = None

NoCall == [op |-> "init", id |-> 0, status |-> None, err |-> "ok",
           bare |-> FALSE, again |-> FALSE, out |-> "", note |-> ""]

\* the threads that may call update on the one store
Threads == {1, 2}

\* the update calls two threads make at the same time: an existing task, at
\* most one id to add, with or without status=completed
RaceCalls ==
    {Call(t, s, None, [add_blocked_by |-> bb, add_blocks |-> b,
                       remove_blocked_by |-> {}, remove_blocks |-> {}]) :
        t \in 1..MaxTasks, s \in {None, " Completed "},
        bb \in IdSets(1), b \in IdSets(1)}

\* a thread that is not inside update
IdleThread ==
    [pc |-> "idle",
     call |-> Call(0, None, None, [add_blocked_by |-> {}, add_blocks |-> {},
                                   remove_blocked_by |-> {}, remove_blocks |-> {}]),
     err |-> "ok", blocked_by |-> {}, blocks |-> {},
     all_tasks |-> <<>>, k |-> 0, task |-> <<>>,
     first |-> FALSE, overlapped |-> FALSE]

\* ------------------------------------------------ background_tasks.py
\* commands passed to BackgroundManager.run
CommandArgs == {"", "   ", " ls ", " reboot "}

\* how subprocess.run ends: return code 0, another return code,
\* TimeoutExpired, or another exception
SubprocessResults == {"rc0", "rc1", "TimeoutExpired", "Exception"}

\* BackgroundManager._is_dangerous, on the commands of CommandArgs
_is_dangerous(command) == command = "reboot"

\* BackgroundManager.run, lines 51-55: "" when the command is accepted, or
\* the error string run returns
_run_error(command) ==
    IF strip(command) = "" THEN "Error: command is required"
    ELSE IF _is_dangerous(strip(command)) THEN "Error: Dangerous command blocked"
    ELSE ""

\* _execute, lines 90-112: the status for the way subprocess.run ended
_status_of(result) ==
    CASE result = "rc0" -> "completed"
      [] result = "rc1" -> "failed"
      [] result = "TimeoutExpired" -> "timeout"
      [] OTHER -> "failed"

\* _execute, lines 125-132: the queue after the notification is appended
_enqueue(queue, task_id, status, command) ==
    Append(queue, [task_id |-> task_id, status |-> status, command |-> command])

\* drain_notifications that returns the queue without clearing it
_after_drain_kept(queue) == queue

\* drain_notifications, line 174: the queue after a drain
_after_drain(queue) == << >>

\* drain_notifications, lines 171-175: the list it returns
drain_notifications(queue) == queue

\* the number of tasks of the record set tasks whose status is status
CountStatus(tasks, status) == Cardinality({t \in DOMAIN tasks : tasks[t].status = status})

\* check counting a task in its summary only once it has finished
_summary_count_finished(tasks) == Cardinality(DOMAIN tasks) - CountStatus(tasks, "running")

\* check, line 147: "count" of the summary
_summary_count(tasks) == Cardinality(DOMAIN tasks)

NoCheck == [kind |-> "none", status |-> "", count |-> 0, running |-> 0,
            completed |-> 0, failed |-> 0, timeout |-> 0]

\* check's task_id argument when it is None
NoTaskId == 0

\* BackgroundManager.check: one task's record, an error for an unknown id,
\* or with task_id None the summary over all tasks
check(tasks, task_id) ==
    IF task_id # NoTaskId
    THEN IF task_id \in DOMAIN tasks
         THEN [NoCheck EXCEPT !.kind = "task", !.status = tasks[task_id].status]
         ELSE [NoCheck EXCEPT !.kind = "Error: not found"]
    ELSE [kind |-> "summary", status |-> "",
          count |-> _summary_count(tasks),
          running |-> CountStatus(tasks, "running"),
          completed |-> CountStatus(tasks, "completed"),
          failed |-> CountStatus(tasks, "failed"),
          timeout |-> CountStatus(tasks, "timeout")]

\* a BackgroundManager without tasks, and an empty history
InitBackground ==
    /\ _tasks = << >>
    /\ _notification_queue = << >>
    /\ workers = << >>
    /\ history = << >>
    /\ injected_count = 0
    /\ checked = NoCheck

\* --------------------------------------------- tools.stream_with_retry
\* the history main passes in
HistoryArg == << "user" >>

\* what agent.stream yields: a dict with a message list, or a chunk the loop
\* skips (not a dict, or without a "messages" list)
ChunkArgs ==
    { [is_list |-> TRUE, messages |-> m] :
        m \in { << "user" >>, << "user", "ai" >>, << "user", "ai", "tool" >> } }
    \cup { [is_list |-> FALSE, messages |-> << >>] }

\* a stream_with_retry that has not been called
IdleRetry ==
    [pc |-> "idle", attempt |-> 0, printed_index |-> 0, final_messages |-> << >>,
     stream_calls |-> 0, on_messages_calls |-> 0, chunks |-> 0,
     yielded |-> << >>, outcomes |-> << >>, result |-> << >>, raised |-> ""]

InitRetry == retry = IdleRetry

\* an except clause that re-raises on the first attempt too
_retries_never(attempt) == FALSE

\* stream_with_retry, lines 202-204: whether a JSONDecodeError is followed by
\* another attempt
_retries(attempt) == attempt = 0

\* an empty tasks_dir and a TaskManager constructed on it
Init ==
    /\ files = <<>>
    /\ next_id = _max_id(files) + 1
    /\ last = NoCall
    /\ peer_next_id = 0
    /\ threads = [i \in Threads |-> IdleThread]
    /\ InitBackground
    /\ InitRetry

\* TaskManager.__post_init__: a new manager on the same tasks_dir
Restart ==
    /\ next_id' = _max_id(files) + 1
    /\ last' = [NoCall EXCEPT !.op = "restart"]
    /\ UNCHANGED <<files, peer_next_id, threads, bgVars, retry>>

Create ==
    \E subject \in SubjectArgs, description \in DescriptionArgs, owner \in CreateOwnerArgs,
       blocked_by \in IdSets(MaxAdd), blocks \in IdSets(MaxAdd) :
        /\ next_id <= MaxTasks
        /\ LET r == create(files, next_id, subject, description, blocked_by, blocks, owner)
           IN /\ files' = r.files
              /\ next_id' = r.next_id
              /\ last' = [NoCall EXCEPT !.op = "create", !.id = r.id, !.err = r.err,
                                        !.out = _tool_result(r.err)]
              /\ UNCHANGED <<peer_next_id, threads, bgVars, retry>>

Update ==
    \E c \in UpdateCalls :
        LET r == update(files, c.task_id, c.status, c.add_blocked_by, c.add_blocks,
                        c.remove_blocked_by, c.remove_blocks, c.owner)
            bare == Bare(c.add_blocked_by, c.add_blocks, c.remove_blocked_by,
                         c.remove_blocks, c.owner)
            complete == bare /\ r.err = "ok" /\ _normalized_status(c.status) = "completed"
        IN /\ files' = r.files
           /\ last' = [op |-> "update", id |-> c.task_id,
                       status |-> _normalized_status(c.status), err |-> r.err,
                       bare |-> bare,
                       again |-> /\ complete
                                 /\ last.op = "update" /\ last.id = c.task_id
                                 /\ last.bare /\ last.err = "ok"
                                 /\ last.status = "completed",
                       out |-> _tool_result(r.err),
                       note |-> IF r.err = "ok" THEN _note(files[c.task_id], c) ELSE ""]
           /\ UNCHANGED <<next_id, peer_next_id, threads, bgVars, retry>>

\* task_get / TaskManager.get
Get ==
    \E task_id \in ArgIds :
        /\ last' = [NoCall EXCEPT !.op = "get", !.id = task_id,
                                  !.err = get(files, task_id).err,
                                  !.out = _tool_result(get(files, task_id).err)]
        /\ UNCHANGED <<files, next_id, peer_next_id, threads, bgVars, retry>>

\* task_list / TaskManager.list_all
List ==
    /\ last' = [NoCall EXCEPT !.op = "list", !.id = list_all(files).count,
                              !.out = _tool_result("ok")]
    /\ UNCHANGED <<files, next_id, peer_next_id, threads, bgVars, retry>>

Next == Create \/ Update \/ Restart

Spec == Init /\ [][Next]_vars

\* the four tool functions of build_task_tools on one manager
NextTools == Create \/ Update \/ Restart \/ Get \/ List

SpecTools == Init /\ [][NextTools]_vars

\* ------------------------------------------- two managers on one tasks_dir
\* TaskManager.__post_init__ of a second manager on the tasks_dir the first
\* one is using
PeerStart ==
    /\ peer_next_id = 0
    /\ peer_next_id' = _max_id(files) + 1
    /\ last' = [NoCall EXCEPT !.op = "peer_start"]
    /\ UNCHANGED <<files, next_id, threads, bgVars, retry>>

\* TaskManager.create on the second manager
PeerCreate ==
    \E subject \in SubjectArgs, description \in DescriptionArgs, owner \in CreateOwnerArgs,
       blocked_by \in IdSets(MaxAdd), blocks \in IdSets(MaxAdd) :
        /\ peer_next_id \in 1..MaxTasks
        /\ LET r == create(files, peer_next_id, subject, description, blocked_by, blocks, owner)
           IN /\ files' = r.files
              /\ peer_next_id' = r.next_id
              /\ last' = [NoCall EXCEPT !.op = "peer_create", !.id = r.id, !.err = r.err,
                                        !.out = _tool_result(r.err)]
              /\ UNCHANGED <<next_id, threads, bgVars, retry>>

NextTwo == Create \/ PeerStart \/ PeerCreate

SpecTwo == Init /\ [][NextTwo]_vars

\* ------------------------------------- two threads inside update at once
\* Each read of a task file and each write of one is a step of its own; what
\* a thread computes between two of them is part of the step that follows.

\* the store after n create calls that name no edge
RECURSIVE Created(_)
Created(n) ==
    IF n = 0 THEN <<>>
    ELSE create(Created(n - 1), n, " A ", " d ", {}, {}, " bob ").files

\* the store the two threads start on
InitRaceStore == Created(MaxTasks)

\* a store of MaxTasks tasks, a manager on it, and idle threads
InitRace ==
    /\ files = InitRaceStore
    /\ next_id = _max_id(files) + 1
    /\ last = NoCall
    /\ peer_next_id = 0
    /\ threads = [i \in Threads |-> IdleThread]
    /\ InitBackground
    /\ InitRetry

Running(i) == threads[i].pc \notin {"idle", "done"}

\* the smallest id above k that all_tasks holds and that is not skip, or 0
NextKey(all_tasks, k, skip) ==
    LET later == {j \in DOMAIN all_tasks : j > k /\ j # skip}
    IN IF later = {} THEN 0 ELSE CHOOSE j \in later : \A l \in later : j <= l

\* the smallest id above k that has a file, or 0
NextFile(f, k) == NextKey(f, k, 0)

\* update, lines 154-175: load the task, check the status and the ids to add,
\* compute the edge sets; then the first file read of _iter_tasks is next
Begin(i) ==
    \E c \in RaceCalls :
        /\ threads[i].pc = "idle"
        /\ LET ok == /\ c.task_id \in DOMAIN files
                      /\ _status_ok(_normalized_status(c.status))
                      /\ _normalize_ok(files, c.add_blocked_by)
                      /\ _normalize_ok(files, c.add_blocks)
               t == [threads[i] EXCEPT
                        !.call = c,
                        !.first = \A j \in Threads \ {i} : threads[j].pc = "idle",
                        !.overlapped = \E j \in Threads \ {i} : Running(j)]
           IN threads' = [threads EXCEPT ![i] =
                IF ~ok
                THEN [t EXCEPT !.pc = "done",
                               !.err = IF c.task_id \in DOMAIN files
                                          /\ ~_status_ok(_normalized_status(c.status))
                                       THEN "Validation" ELSE "NotFound"]
                ELSE [t EXCEPT !.pc = "iter",
                               !.blocked_by = _new_blocked_by(files[c.task_id], c.task_id,
                                                  c.add_blocked_by, c.remove_blocked_by),
                               !.blocks = _new_blocks(files[c.task_id], c.task_id,
                                                  c.add_blocks, c.remove_blocks),
                               !.all_tasks = <<>>,
                               !.k = NextFile(files, 0)]]
        /\ UNCHANGED <<files, next_id, last, peer_next_id, bgVars, retry>>

\* _sync_reverse_edges, line 74: _iter_tasks reads the next task file
Iter(i) ==
    /\ threads[i].pc = "iter"
    /\ LET t == threads[i]
           all_tasks == IF t.k \in DOMAIN files THEN _save(t.all_tasks, files[t.k])
                        ELSE t.all_tasks
           k == NextFile(files, t.k)
       IN threads' = [threads EXCEPT ![i] =
            IF t.k # 0 /\ k # 0
            THEN [t EXCEPT !.all_tasks = all_tasks, !.k = k]
            ELSE IF t.call.task_id \notin DOMAIN all_tasks
            THEN [t EXCEPT !.all_tasks = all_tasks, !.pc = "reload"]
            ELSE [t EXCEPT !.all_tasks = all_tasks, !.pc = "save_current"]]
    /\ UNCHANGED <<files, next_id, last, peer_next_id, bgVars, retry>>

\* _sync_reverse_edges, lines 78-81: the task's own record gets the new edge
\* sets and is saved
SaveCurrent(i) ==
    /\ threads[i].pc = "save_current"
    /\ LET t == threads[i]
           current == [t.all_tasks[t.call.task_id] EXCEPT !.blockedBy = t.blocked_by,
                                                          !.blocks = t.blocks]
           k == NextKey(t.all_tasks, 0, t.call.task_id)
       IN /\ files' = _save(files, current)
          /\ threads' = [threads EXCEPT ![i] =
                [t EXCEPT !.all_tasks = _save(t.all_tasks, current),
                          !.k = k,
                          !.pc = IF k = 0 THEN "reload" ELSE "sync_other"]]
    /\ UNCHANGED <<next_id, last, peer_next_id, bgVars, retry>>

\* _sync_reverse_edges, lines 83-112: one turn of the loop over the other
\* tasks, on the copies read by _iter_tasks
SyncOther(i) ==
    /\ threads[i].pc = "sync_other"
    /\ LET t == threads[i]
           task_id == t.call.task_id
           k == NextKey(t.all_tasks, t.k, task_id)
       IN /\ files' = IF _sync_changed(t.all_tasks, task_id, t.blocked_by, t.blocks, t.k)
                       THEN _save(files, _sync_other(t.all_tasks[t.k], t.k, task_id,
                                                     t.blocked_by, t.blocks))
                       ELSE files
          /\ threads' = [threads EXCEPT ![i] =
                [t EXCEPT !.k = k, !.pc = IF k = 0 THEN "reload" ELSE "sync_other"]]
    /\ UNCHANGED <<next_id, last, peer_next_id, bgVars, retry>>

\* update, line 178: task = self._load(task_id)
Reload(i) ==
    /\ threads[i].pc = "reload"
    /\ LET t == threads[i]
       IN threads' = [threads EXCEPT ![i] =
            IF t.call.task_id \in DOMAIN files
            THEN [t EXCEPT !.task = <<files[t.call.task_id]>>, !.pc = "save"]
            ELSE [t EXCEPT !.err = "NotFound", !.pc = "done"]]
    /\ UNCHANGED <<files, next_id, last, peer_next_id, bgVars, retry>>

\* update, lines 180-186: status and owner are set on the reloaded record and
\* it is saved
Save(i) ==
    /\ threads[i].pc = "save"
    /\ LET t == threads[i]
           task == _apply_fields(t.task[1], _normalized_status(t.call.status), t.call.owner)
           k == NextFile(_save(files, task), 0)
       IN /\ files' = _save(files, task)
          /\ threads' = [threads EXCEPT ![i] =
                IF _is_completed(t.task[1], task)
                THEN [t EXCEPT !.task = <<task>>, !.all_tasks = <<>>, !.k = k,
                               !.pc = "clear_iter"]
                ELSE [t EXCEPT !.task = <<task>>, !.pc = "done"]]
    /\ UNCHANGED <<next_id, last, peer_next_id, bgVars, retry>>

\* _clear_dependency, line 67: _iter_tasks reads the next task file
ClearIter(i) ==
    /\ threads[i].pc = "clear_iter"
    /\ LET t == threads[i]
           all_tasks == IF t.k \in DOMAIN files THEN _save(t.all_tasks, files[t.k])
                        ELSE t.all_tasks
           k == NextFile(files, t.k)
           k0 == NextKey(all_tasks, 0, 0)
       IN threads' = [threads EXCEPT ![i] =
            IF t.k # 0 /\ k # 0
            THEN [t EXCEPT !.all_tasks = all_tasks, !.k = k]
            ELSE [t EXCEPT !.all_tasks = all_tasks, !.k = k0,
                           !.pc = IF k0 = 0 THEN "done" ELSE "clear_save"]]
    /\ UNCHANGED <<files, next_id, last, peer_next_id, bgVars, retry>>

\* _clear_dependency, lines 68-71: one turn of the loop, on the copies read
\* by _iter_tasks
ClearSave(i) ==
    /\ threads[i].pc = "clear_save"
    /\ LET t == threads[i]
           completed_id == t.call.task_id
           task == t.all_tasks[t.k]
           k == NextKey(t.all_tasks, t.k, 0)
       IN /\ files' = IF completed_id \in task.blockedBy
                       THEN _save(files, [task EXCEPT !.blockedBy = @ \ {completed_id}])
                       ELSE files
          /\ threads' = [threads EXCEPT ![i] =
                [t EXCEPT !.k = k, !.pc = IF k = 0 THEN "done" ELSE "clear_save"]]
    /\ UNCHANGED <<next_id, last, peer_next_id, bgVars, retry>>

NextRace ==
    \E i \in Threads :
        \/ Begin(i) \/ Iter(i) \/ SaveCurrent(i) \/ SyncOther(i)
        \/ Reload(i) \/ Save(i) \/ ClearIter(i) \/ ClearSave(i)

SpecRace == InitRace /\ [][NextRace]_vars

\* ------------------------------------------------- the background manager
\* the unchanged part of the state for a step of the background manager
TaskStoreVars == <<files, next_id, last, peer_next_id, threads>>

\* BackgroundManager.run: a refused command returns an error string; an
\* accepted one gets a fresh id, a record with status running, and a thread
Run ==
    \E command \in CommandArgs :
        /\ Cardinality(DOMAIN _tasks) < MaxBackground
        /\ IF _run_error(command) # ""
           THEN UNCHANGED <<_tasks, workers>>
           ELSE LET task_id == Cardinality(DOMAIN _tasks) + 1
                IN /\ _tasks' = [t \in DOMAIN _tasks \cup {task_id} |->
                                    IF t = task_id
                                    THEN [task_id |-> task_id, command |-> strip(command),
                                          status |-> "running"]
                                    ELSE _tasks[t]]
                   /\ workers' = [t \in DOMAIN workers \cup {task_id} |->
                                    IF t = task_id THEN [pc |-> "start", status |-> "completed"]
                                    ELSE workers[t]]
        /\ UNCHANGED <<_notification_queue, history, injected_count, checked,
                       TaskStoreVars, retry>>

\* _execute, lines 83-88: under the lock, read the record
Start(t) ==
    /\ t \in DOMAIN workers
    /\ workers[t].pc = "start"
    /\ workers' = [workers EXCEPT ![t].pc = IF t \in DOMAIN _tasks THEN "subprocess" ELSE "done"]
    /\ UNCHANGED <<_tasks, _notification_queue, history, injected_count, checked,
                   TaskStoreVars, retry>>

\* _execute, lines 90-115: subprocess.run ends, the thread has its status
Subprocess(t) ==
    \E result \in SubprocessResults :
        /\ t \in DOMAIN workers
        /\ workers[t].pc = "subprocess"
        /\ workers' = [workers EXCEPT ![t] = [pc |-> "finish", status |-> _status_of(result)]]
        /\ UNCHANGED <<_tasks, _notification_queue, history, injected_count, checked,
                       TaskStoreVars, retry>>

\* _execute, lines 117-132: under the lock, set the status and append the
\* notification
Finish(t) ==
    /\ t \in DOMAIN workers
    /\ workers[t].pc = "finish"
    /\ workers' = [workers EXCEPT ![t].pc = "done"]
    /\ IF t \in DOMAIN _tasks
       THEN /\ _tasks' = [_tasks EXCEPT ![t].status = workers[t].status]
            /\ _notification_queue' = _enqueue(_notification_queue, t, workers[t].status,
                                               _tasks[t].command)
       ELSE UNCHANGED <<_tasks, _notification_queue>>
    /\ UNCHANGED <<history, injected_count, checked, TaskStoreVars, retry>>

\* BackgroundManager.check, under the lock
Check ==
    \E task_id \in {NoTaskId} \cup (1..MaxBackground) :
        /\ checked' = check(_tasks, task_id)
        /\ UNCHANGED <<_tasks, _notification_queue, workers, history, injected_count,
                       TaskStoreVars, retry>>

\* main.inject_background_notifications: drain the queue and, when it held
\* something, append the two messages to the history
Inject ==
    LET notifications == drain_notifications(_notification_queue)
    IN /\ _notification_queue' = IF _notification_queue = << >> THEN _notification_queue
                                 ELSE _after_drain(_notification_queue)
       /\ IF notifications = << >>
          THEN /\ injected_count' = 0
               /\ UNCHANGED history
          ELSE /\ history' = history \o
                    << [role |-> "user", content |-> notifications],
                       [role |-> "assistant", content |-> << >>] >>
               /\ injected_count' = Len(notifications)
       /\ UNCHANGED <<_tasks, workers, checked, TaskStoreVars, retry>>

NextBackground ==
    \/ Run \/ Check \/ Inject
    \/ \E t \in 1..MaxBackground : Start(t) \/ Subprocess(t) \/ Finish(t)

SpecBackground == Init /\ [][NextBackground]_vars

\* --------------------------------------------------- stream_with_retry
\* stream_with_retry, lines 174-185: the call, up to the first agent.stream
CallStream ==
    /\ retry.pc = "idle"
    /\ retry' = [IdleRetry EXCEPT !.pc = "streaming", !.attempt = 0,
                                  !.printed_index = Len(HistoryArg),
                                  !.final_messages = HistoryArg,
                                  !.stream_calls = 1]
    /\ UNCHANGED <<TaskStoreVars, bgVars>>

\* lines 181-196: agent.stream yields a chunk
Chunk ==
    \E chunk \in ChunkArgs :
        /\ retry.pc = "streaming"
        /\ retry.chunks < MaxChunks
        /\ retry' =
            IF ~chunk.is_list
            THEN [retry EXCEPT !.chunks = @ + 1]
            ELSE [retry EXCEPT
                    !.chunks = @ + 1,
                    !.on_messages_calls =
                        IF Len(chunk.messages) > retry.printed_index THEN @ + 1 ELSE @,
                    !.printed_index =
                        IF Len(chunk.messages) > retry.printed_index
                        THEN Len(chunk.messages) ELSE @,
                    !.final_messages = chunk.messages,
                    !.yielded = Append(@, chunk.messages)]
        /\ UNCHANGED <<TaskStoreVars, bgVars>>

\* lines 198-199: the stream is exhausted
Return ==
    /\ retry.pc = "streaming"
    /\ retry' = [retry EXCEPT !.pc = "returned", !.result = retry.final_messages,
                              !.outcomes = Append(@, "ok")]
    /\ UNCHANGED <<TaskStoreVars, bgVars>>

\* lines 176 and 200-207: agent.stream or on_messages raises
\* json.JSONDecodeError; another attempt follows when the except clause
\* continues and range(2) has one left
RaiseJSONDecodeError ==
    /\ retry.pc = "streaming"
    /\ retry' =
        IF _retries(retry.attempt) /\ retry.attempt + 1 < 2
        THEN [retry EXCEPT !.attempt = @ + 1,
                           !.printed_index = Len(HistoryArg),
                           !.final_messages = HistoryArg,
                           !.stream_calls = @ + 1,
                           !.chunks = 0,
                           !.yielded = << >>,
                           !.outcomes = Append(@, "JSONDecodeError")]
        ELSE [retry EXCEPT !.pc = "raised", !.raised = "JSONDecodeError",
                           !.outcomes = Append(@, "JSONDecodeError")]
    /\ UNCHANGED <<TaskStoreVars, bgVars>>

\* agent.stream or on_messages raises an exception that is not a
\* JSONDecodeError: no except clause matches
RaiseOther ==
    /\ retry.pc = "streaming"
    /\ retry' = [retry EXCEPT !.pc = "raised", !.raised = "Exception",
                              !.outcomes = Append(@, "Exception")]
    /\ UNCHANGED <<TaskStoreVars, bgVars>>

\* main's loop, lines 181-252: the next turn calls stream_with_retry again
NextTurn ==
    /\ retry.pc \in {"returned", "raised"}
    /\ retry' = IdleRetry
    /\ UNCHANGED <<TaskStoreVars, bgVars>>

NextRetry == CallStream \/ Chunk \/ Return \/ RaiseJSONDecodeError \/ RaiseOther \/ NextTurn

SpecRetry == Init /\ [][NextRetry]_vars

\* ------------------------------------------------------------- properties
Stored == DOMAIN files

\* the largest stored id, 0 for an empty store
MaxStored == IF Stored = {} THEN 0 ELSE CHOOSE m \in Stored : \A i \in Stored : i <= m

CompletedCall == last.op = "update" /\ last.err = "ok" /\ last.status = "completed"

\* C1: symmetry - in every reachable state, for all tasks A and B, B.id is in
\* A.blockedBy if and only if A.id is in B.blocks
C1_Symmetry ==
    \A A \in Stored, B \in Stored :
        (B \in files[A].blockedBy) <=> (A \in files[B].blocks)

\* C2: no self-loop - no task's id is in its own blockedBy or its own blocks
C2_NoSelfLoop ==
    \A A \in Stored : A \notin files[A].blockedBy /\ A \notin files[A].blocks

\* C3: unblock propagation - when update(X, status=completed) has returned
\* successfully, X is in no task's blockedBy
C3_UnblockPropagation ==
    CompletedCall => \A Y \in Stored : last.id \notin files[Y].blockedBy

\* update(X, status=completed) has returned and X blocks another task Y, whose
\* blockedBy held X until the call cleared it
C3_Witness ==
    /\ CompletedCall
    /\ \E Y \in Stored : Y # last.id /\ Y \in files[last.id].blocks

\* C4: a create that fails with a not-found error creates no record
C4_FailedCreateWritesNothing ==
    [][(last'.op = "create" /\ last'.err = "NotFound") => DOMAIN files' = DOMAIN files]_vars

\* C5: referential integrity - every id in any task's blockedBy or blocks is
\* the id of a stored task
C5_ReferentialIntegrity ==
    \A A \in Stored : files[A].blockedBy \cup files[A].blocks \subseteq Stored

\* an update has added an edge between two stored tasks
C5_Witness ==
    /\ last.op = "update" /\ last.err = "ok"
    /\ \E A \in Stored : \E B \in files[A].blockedBy : B # A

\* C6: a new manager starts its counter at the largest stored id + 1, and a
\* create that passes subject validation is given the counter's value, which
\* is greater than every stored id and smaller than every later id, and
\* leaves every record that was stored in place
C6_MonotonicIds ==
    [][/\ last'.op = "restart" => next_id' = MaxStored + 1
       /\ (last'.op = "create" /\ last'.err # "Validation") =>
            /\ last'.id = next_id
            /\ \A i \in Stored : i < last'.id
            /\ next_id' > last'.id
            /\ DOMAIN files' = Stored \cup {last'.id}
            /\ \A i \in DOMAIN files' : files'[i].id = i]_vars

\* a second task has been created on a store that held one
C6_Witness == last.op = "create" /\ last.err = "ok" /\ last.id = 2 /\ Stored = {1, 2}

\* C7: idempotence of completion - update(X, status=completed) called a
\* second time in a row leaves every record as the first call left it
C7_Idempotence == [][last'.again => files' = files]_vars

\* the second of two update(X, status=completed) calls in a row has returned,
\* on a task X that blocks another task
C7_Witness ==
    /\ last.again
    /\ \E Y \in Stored : Y # last.id /\ Y \in files[last.id].blocks

\* C8: query consistency - ready is the pending tasks with empty blockedBy,
\* blocked the other pending tasks, in_progress and completed the tasks with
\* those statuses; the groups are pairwise disjoint, their union is tasks and
\* count is the number of stored tasks
C8_QueryConsistency ==
    LET v == list_all(files)
        pending == {t \in Stored : files[t].status = "pending"}
    IN /\ v.ready = {t \in pending : files[t].blockedBy = {}}
       /\ v.blocked = pending \ v.ready
       /\ v.in_progress = {t \in Stored : files[t].status = "in_progress"}
       /\ v.completed = {t \in Stored : files[t].status = "completed"}
       /\ v.ready \cap v.blocked = {} /\ v.ready \cap v.in_progress = {}
       /\ v.ready \cap v.completed = {} /\ v.blocked \cap v.in_progress = {}
       /\ v.blocked \cap v.completed = {} /\ v.in_progress \cap v.completed = {}
       /\ v.ready \cup v.blocked \cup v.in_progress \cup v.completed = v.tasks
       /\ v.tasks = Stored
       /\ v.count = Cardinality(Stored)
       /\ \A t \in Stored : files[t].status \in VALID_STATUS

\* a store whose tasks fall in more than one group, one of them blocked
C8_Witness ==
    /\ list_all(files).blocked # {}
    /\ list_all(files).in_progress # {} \/ list_all(files).completed # {}

\* C9: create with an empty or whitespace-only subject fails with a
\* validation error, writes no record and leaves the id counter as it was,
\* whatever its other arguments
C9_BlankSubject ==
    \A subject \in {"", "   "}, blocked_by \in IdSets(MaxAdd), blocks \in IdSets(MaxAdd) :
        LET r == create(files, next_id, subject, " d ", blocked_by, blocks, " bob ")
        IN r.err = "Validation" /\ r.files = files /\ r.next_id = next_id

\* a create has failed on its subject on a store that holds a task
C9_Witness == last.op = "create" /\ last.err = "Validation" /\ Stored # {}

\* the ids of a call's add_blocked_by and add_blocks that have no record
MissingAdds(c) == (c.add_blocked_by \cup c.add_blocks) \ Stored

\* C10: a failing update changes nothing - update fails with not-found when
\* task_id or an id of add_blocked_by / add_blocks has no record and with a
\* validation error when the status is not a valid one, it fails in no other
\* case, and a failed call leaves every record as it was
C10_FailedUpdateChangesNothing ==
    \A c \in UpdateCalls :
        LET r == update(files, c.task_id, c.status, c.add_blocked_by, c.add_blocks,
                        c.remove_blocked_by, c.remove_blocks, c.owner)
            notFound == c.task_id \notin Stored \/ MissingAdds(c) # {}
            invalid == c.status # None /\ lower(strip(c.status)) \notin VALID_STATUS
        IN /\ (notFound \/ invalid) <=> r.err # "ok"
           /\ (notFound /\ ~invalid) => r.err = "NotFound"
           /\ (invalid /\ ~notFound) => r.err = "Validation"
           /\ r.err \in {"ok", "NotFound", "Validation"}
           /\ r.err # "ok" => r.files = files

\* an update of a stored task has failed with not-found, on a store where a
\* call naming a stored id next to a missing one fails that way
C10_Witness ==
    /\ last.op = "update" /\ last.err = "NotFound" /\ last.id \in Stored
    /\ \E c \in UpdateCalls :
        /\ c.task_id = last.id
        /\ c.add_blocked_by \cap (Stored \ {last.id}) # {}
        /\ c.add_blocked_by \ Stored # {}
        /\ update(files, c.task_id, c.status, c.add_blocked_by, c.add_blocks,
                  c.remove_blocked_by, c.remove_blocks, c.owner).err = "NotFound"

\* C11: a successful create(subject, blocked_by=S, blocks=T) stores a pending
\* task with blockedBy = S and blocks = T, and afterwards every task of S
\* lists the new id in its blocks and every task of T lists it in its
\* blockedBy
C11_CreateEdges ==
    [][(last'.op = "create" /\ last'.err = "ok") =>
        \A S \in IdSets(MaxAdd), T \in IdSets(MaxAdd) :
            LET r == create(files, next_id, " A ", " d ", S, T, " bob ")
                n == last'.id
            IN (r.err = "ok" /\ files' = r.files) =>
                /\ files'[n].status = "pending"
                /\ files'[n].blockedBy = S
                /\ files'[n].blocks = T
                /\ \A s \in S : n \in files'[s].blocks
                /\ \A t \in T : n \in files'[t].blockedBy]_vars

\* the tasks reached from the tasks of S along blockedBy in at most n steps
RECURSIVE BlockedByWithin(_, _)
BlockedByWithin(S, n) ==
    IF n = 0 THEN S
    ELSE BlockedByWithin(S \cup UNION {files[t].blockedBy \cap Stored : t \in S \cap Stored}, n - 1)

\* C12: the task graph is a DAG - no task reaches itself along blockedBy
C12_Acyclic ==
    \A t \in Stored : t \notin BlockedByWithin(files[t].blockedBy, Cardinality(Stored))

\* C13 as claimed: no update moves a task's status backwards on the path
\* pending -> in_progress -> completed
C13_NoBackward ==
    [][\A t \in Stored : StatusRank(files'[t].status) >= StatusRank(files[t].status)]_vars

\* C13 as amended: update sets the target's status to any of the three valid
\* values whatever its current status, and leaves the status of every other
\* task as it was
C13_AnyStatus ==
    \A t \in Stored, status \in StatusArgs :
        LET r == update(files, t, status, {}, {}, {}, {}, None)
        IN (status # None /\ lower(strip(status)) \in VALID_STATUS) =>
            /\ r.err = "ok"
            /\ r.files[t].status = lower(strip(status))
            /\ \A u \in Stored \ {t} : r.files[u].status = files[u].status

\* an update has moved its task's status backwards
C13_Witness ==
    /\ last.op = "update" /\ last.err = "ok" /\ last.note = "back"
    /\ files[last.id].status = last.status
    /\ last.status \in {"pending", "in_progress"}

\* C14: a tool function never raises - it returns the JSON of the manager's
\* result or a string starting with "Error: ", and the error string exactly
\* when the manager call failed
C14_ToolsNeverRaise ==
    last.op \in {"create", "update", "get", "list"} =>
        /\ last.out \in {"json", "Error: "}
        /\ last.out = "Error: " <=> last.err # "ok"

\* task_get has returned an error string for an id without a record, on a
\* store that holds a task
C14_Witness == last.op = "get" /\ last.out = "Error: " /\ Stored # {}

\* C15: whatever inconsistency exists before, after the next successful create
\* or update symmetry holds across the whole task set
C15_SelfHealing ==
    [][(~C1_Symmetry /\ last'.op \in {"create", "update"} /\ last'.err = "ok")
        => C1_Symmetry']_vars

\* the arguments of c pass update's checks on the current store
Accepted(c) ==
    /\ c.task_id \in Stored
    /\ c.status # None => lower(strip(c.status)) \in VALID_STATUS
    /\ MissingAdds(c) = {}

UpdateOf(c) ==
    update(files, c.task_id, c.status, c.add_blocked_by, c.add_blocks,
           c.remove_blocked_by, c.remove_blocks, c.owner)

\* C18: an update that names its own task among the ids to add succeeds, adds
\* the task's id to neither its blockedBy nor its blocks, and applies the
\* other ids of the call
C18_SelfDropped ==
    \A c \in UpdateCalls :
        LET X == c.task_id
            r == UpdateOf(c)
        IN (Accepted(c) /\ X \in c.add_blocked_by \cup c.add_blocks) =>
            /\ r.err = "ok"
            /\ X \in r.files[X].blockedBy => X \in files[X].blockedBy
            /\ X \in r.files[X].blocks => X \in files[X].blocks
            /\ (c.add_blocked_by \ {X}) \ c.remove_blocked_by \subseteq r.files[X].blockedBy
            /\ (c.add_blocks \ {X}) \ c.remove_blocks \subseteq r.files[X].blocks

\* an update naming its own task and another one has returned: the other id was
\* added, its own was not
C18_Witness ==
    /\ last.op = "update" /\ last.err = "ok" /\ last.note = "self"
    /\ last.id \notin files[last.id].blockedBy \cup files[last.id].blocks
    /\ files[last.id].blockedBy \cup files[last.id].blocks # {}

\* C19: removal is tolerant - remove_blocked_by / remove_blocks never make
\* update fail, whatever ids they name; an id named for removal is absent
\* afterwards, also when the same call adds it; ids that the edge sets do not
\* hold change nothing
C19_TolerantRemoval ==
    \A c \in UpdateCalls :
        LET X == c.task_id
            r == UpdateOf(c)
            absentOnly ==
                /\ c.remove_blocked_by \cap (files[X].blockedBy \cup c.add_blocked_by) = {}
                /\ c.remove_blocks \cap (files[X].blocks \cup c.add_blocks) = {}
        IN Accepted(c) =>
            /\ r.err = "ok"
            /\ r.files[X].blockedBy \cap c.remove_blocked_by = {}
            /\ r.files[X].blocks \cap c.remove_blocks = {}
            /\ absentOnly =>
                r.files = update(files, X, c.status, c.add_blocked_by, c.add_blocks,
                                 {}, {}, c.owner).files

\* an update has returned that named for removal an id its edge set did not
\* hold
C19_Witness == last.op = "update" /\ last.err = "ok" /\ last.note = "remove_absent"

\* the stored tasks whose blockedBy or blocks differ between the stores f and g
EdgesDiffer(f, g) ==
    {t \in DOMAIN f : f[t].blockedBy # g[t].blockedBy \/ f[t].blocks # g[t].blocks}

\* C20 as claimed: the reconcile pass of an update saves exactly the records
\* whose edge sets it changes, the target task's own included
C20_SavesOnlyChanged ==
    \A c \in UpdateCalls :
        Accepted(c) =>
            LET X == c.task_id
                bb == _new_blocked_by(files[X], X, c.add_blocked_by, c.remove_blocked_by)
                b == _new_blocks(files[X], X, c.add_blocks, c.remove_blocks)
            IN _sync_saved(files, X, bb, b)
                 = EdgesDiffer(files, _sync_reverse_edges(files, X, bb, b))

\* C20 as amended: the reconcile pass saves the target task's record always,
\* and of the other records exactly those whose edge sets it changes
C20_SavesTargetAndChanged ==
    \A c \in UpdateCalls :
        Accepted(c) =>
            LET X == c.task_id
                bb == _new_blocked_by(files[X], X, c.add_blocked_by, c.remove_blocked_by)
                b == _new_blocks(files[X], X, c.add_blocks, c.remove_blocks)
            IN _sync_saved(files, X, bb, b)
                 = {X} \cup EdgesDiffer(files, _sync_reverse_edges(files, X, bb, b))

\* an update has run the reconcile pass with the edge sets its task already
\* had, on a store that holds another task
C20_Witness ==
    /\ last.op = "update" /\ last.err = "ok" /\ last.note = "same_edges"
    /\ Stored # {last.id}

\* C16: two managers on one tasks_dir each assign ids from their own counter,
\* whatever records the directory holds - a create that passes the subject
\* check gets the id in the caller's counter, and when a record with that id
\* is already stored the create replaces it instead of adding a task
C16_OwnCounter ==
    [][/\ (last'.op = "peer_create" /\ last'.id # 0) =>
            /\ last'.id = peer_next_id
            /\ peer_next_id' = peer_next_id + 1
            /\ peer_next_id \in Stored => DOMAIN files' = Stored
       /\ (last'.op = "create" /\ last'.id # 0) =>
            /\ last'.id = next_id
            /\ next_id' = next_id + 1
            /\ next_id \in Stored => DOMAIN files' = Stored]_vars

\* the second manager's create has been given an id the first manager had
\* given out, and the directory holds fewer records than creates have written
C16_Witness ==
    /\ last.op = "peer_create" /\ last.err = "ok"
    /\ last.id < next_id
    /\ Cardinality(Stored) < next_id

\* both threads have left update
BothDone == \A i \in Threads : threads[i].pc = "done"

\* the store after the calls of threads i and j, one after the other
Serial(i, j) ==
    LET ci == threads[i].call
        cj == threads[j].call
        fi == update(InitRaceStore, ci.task_id, ci.status, ci.add_blocked_by, ci.add_blocks,
                     ci.remove_blocked_by, ci.remove_blocks, ci.owner).files
    IN update(fi, cj.task_id, cj.status, cj.add_blocked_by, cj.add_blocks,
              cj.remove_blocked_by, cj.remove_blocks, cj.owner).files

\* C17: the store takes no lock, and only calls that overlap can leave a state
\* that no serial order gives - when one update ran after the other had
\* returned, the store is the one the two calls give in that order
C17_SerialWhenNotOverlapped ==
    (BothDone /\ \A i \in Threads : ~threads[i].overlapped) =>
        \A i \in Threads, j \in Threads :
            (i # j /\ threads[i].first) => files = Serial(i, j)

\* two overlapping updates that set no status have both returned without
\* error, and the store differs from the result of both serial orders and is
\* asymmetric
C17_Witness ==
    /\ BothDone
    /\ \E i \in Threads : threads[i].overlapped
    /\ \A i \in Threads : threads[i].err = "ok" /\ threads[i].call.status = None
    /\ files # Serial(1, 2) /\ files # Serial(2, 1)
    /\ ~C1_Symmetry

\* C21: for distinct tasks A and B, B.id in A.blockedBy implies A.id in
\* B.blocks - the forward half of symmetry holds in every reachable state,
\* also after completions
C21_ForwardSymmetry ==
    \A A \in Stored, B \in Stored :
        (A # B /\ B \in files[A].blockedBy) => A \in files[B].blocks

\* a completion has left a stale blocks entry on the completed task while
\* another blockedBy edge is still stored
C21_Witness ==
    /\ CompletedCall
    /\ \E A \in Stored, B \in Stored :
        A # B /\ A \in files[B].blocks /\ B \notin files[A].blockedBy
    /\ \E A \in Stored, B \in Stored : A # B /\ B \in files[A].blockedBy

\* C22: no task's blockedBy contains the id of a task whose status is
\* completed
C22_NotBlockedByCompleted ==
    \A A \in Stored : \A B \in files[A].blockedBy \cap Stored :
        files[B].status # "completed"

\* c names no id to add and none to remove
NoEdgeArgs(c) ==
    /\ c.add_blocked_by = {} /\ c.add_blocks = {}
    /\ c.remove_blocked_by = {} /\ c.remove_blocks = {}

\* C23: an update called with no add_* / remove_* argument (status and / or
\* owner only) adds no id to any task's blockedBy
C23_StatusOnlyAddsNoBlocker ==
    \A c \in UpdateCalls :
        (NoEdgeArgs(c) /\ UpdateOf(c).err = "ok") =>
            \A t \in Stored : UpdateOf(c).files[t].blockedBy \subseteq files[t].blockedBy

\* C24: update(X, status=in_progress) and update(X, status=completed) succeed
\* whatever X.blockedBy contains, X keeps its blockedBy entries, and with a
\* non-empty blockedBy X is then in neither ready nor blocked
C24_NoDependencyGate ==
    \A X \in Stored, status \in {"in_progress", " Completed "} :
        LET r == update(files, X, status, {}, {}, {}, {}, None)
        IN /\ r.err = "ok"
           /\ r.files[X].status = lower(strip(status))
           /\ r.files[X].blockedBy = files[X].blockedBy
           /\ X \notin list_all(r.files).ready \cup list_all(r.files).blocked

\* C25: create and update never change the id, subject, description, status
\* or owner of a task other than the one created or targeted
C25_OtherTasksKeepFields ==
    [][\A t \in Stored \ {last'.id} :
        /\ files'[t].id = files[t].id
        /\ files'[t].subject = files[t].subject
        /\ files'[t].description = files[t].description
        /\ files'[t].status = files[t].status
        /\ files'[t].owner = files[t].owner]_vars

\* an update has completed a task that blocks another task, and that other
\* task is in_progress
C25_Witness ==
    /\ CompletedCall
    /\ \E t \in Stored \ {last.id} :
        /\ last.id \in files[t].blocks
        /\ files[t].status = "in_progress"

\* C26: whenever some task is pending and none is in_progress, ready is not
\* empty
C26_Progress ==
    (list_all(files).ready \cup list_all(files).blocked # {}
        /\ list_all(files).in_progress = {})
      => list_all(files).ready # {}

\* the places of task t's notification in the queue
Queued(t) == {i \in DOMAIN _notification_queue : _notification_queue[i].task_id = t}

\* the places of task t's notification in the messages injected into history
Injected(t) ==
    {p \in UNION {{<<i, j>> : j \in DOMAIN history[i].content} : i \in DOMAIN history} :
        history[p[1]].content[p[2]].task_id = t}

Finished == {"completed", "failed", "timeout"}

\* every accepted task has no notification while it is running and exactly
\* one from the moment it is not, in the queue or in an injected message, and
\* that one carries the task's status
OneNotification ==
    \A t \in DOMAIN _tasks :
        /\ Cardinality(Queued(t)) + Cardinality(Injected(t))
             = IF _tasks[t].status = "running" THEN 0 ELSE 1
        /\ \A i \in Queued(t) : _notification_queue[i].status = _tasks[t].status
        /\ \A p \in Injected(t) : history[p[1]].content[p[2]].status = _tasks[t].status

\* C27: every accepted background task has exactly one notification,
\* enqueued in the step in which its status leaves running; under every
\* interleaving of workers and drains each notification is handed out by
\* exactly one drain; inject_background_notifications appends to the history
\* only when the drain returned something, and then the drained notifications
\* and the acknowledgement
C27_NotifiedOnce ==
    [][/\ OneNotification'
       /\ \A t \in DOMAIN _tasks :
            (_tasks[t].status = "running" /\ _tasks'[t].status # "running")
                <=> Cardinality(Queued(t)') = Cardinality(Queued(t)) + 1
       /\ history' # history =>
            /\ _notification_queue # << >>
            /\ _notification_queue' = << >>
            /\ injected_count' = Len(_notification_queue)
            /\ history' = history \o
                << [role |-> "user", content |-> _notification_queue],
                   [role |-> "assistant", content |-> << >>] >>
       /\ (_notification_queue' # _notification_queue /\ history' = history) =>
            /\ Len(_notification_queue') = Len(_notification_queue) + 1
            /\ SubSeq(_notification_queue', 1, Len(_notification_queue))
                 = _notification_queue]_vars

\* all background tasks have finished and two drains have handed out their
\* notifications, one of them two at once; nothing is left in the queue
C27_Witness ==
    /\ Cardinality(DOMAIN _tasks) = MaxBackground
    /\ \A t \in DOMAIN _tasks : _tasks[t].status \in Finished
    /\ _notification_queue = << >>
    /\ Len(history) = 4
    /\ \E i \in DOMAIN history : Len(history[i].content) = 2
    /\ injected_count > 0

\* C28: a background task starts as running, its status changes at most once,
\* to completed, failed or timeout, in the same step that enqueues its
\* notification; check never reports a task as finished whose notification is
\* neither in the queue nor drained; in check's summary running + completed +
\* failed + timeout = count
C28_StatusOnce ==
    [][/\ \A t \in DOMAIN _tasks' :
            IF t \notin DOMAIN _tasks
            THEN _tasks'[t].status = "running"
            ELSE _tasks'[t].status # _tasks[t].status =>
                    /\ _tasks[t].status = "running"
                    /\ _tasks'[t].status \in Finished
                    /\ _notification_queue' =
                         Append(_notification_queue,
                                [task_id |-> t, status |-> _tasks'[t].status,
                                 command |-> _tasks[t].command])
       /\ \A t \in DOMAIN _tasks' :
            check(_tasks', t).status \in Finished => Queued(t)' \cup Injected(t)' # {}
       /\ LET summary == check(_tasks', NoTaskId)
          IN /\ summary.running + summary.completed + summary.failed + summary.timeout
                  = summary.count
             /\ summary.count = Cardinality(DOMAIN _tasks')
       /\ checked'.kind = "summary" =>
            checked'.running + checked'.completed + checked'.failed + checked'.timeout
                = checked'.count]_vars

\* check has returned a summary of three tasks, one running, one failed with
\* its notification still queued, one timed out with its notification drained
C28_Witness ==
    /\ checked = check(_tasks, NoTaskId)
    /\ checked.count = 3 /\ checked.running = 1
    /\ checked.failed = 1 /\ checked.timeout = 1
    /\ \E t \in DOMAIN _tasks : _tasks[t].status = "failed" /\ Queued(t) # {}
    /\ \E t \in DOMAIN _tasks : _tasks[t].status = "timeout" /\ Injected(t) # {}

\* C29: stream_with_retry calls agent.stream at most twice; a JSONDecodeError
\* in the first attempt is followed by one retry and in the second attempt
\* goes to the caller; any other exception goes to the caller at once; on
\* success the call returns the last message list the successful attempt
\* yielded (the history itself when it yielded none)
C29_RetryOnce ==
    /\ retry.stream_calls <= 2
    /\ retry.stream_calls = Len(retry.outcomes) + (IF retry.pc = "streaming" THEN 1 ELSE 0)
    /\ (retry.pc = "streaming" /\ retry.attempt = 1) => retry.outcomes = << "JSONDecodeError" >>
    /\ (retry.pc = "streaming" /\ retry.attempt = 0) => retry.outcomes = << >>
    /\ retry.pc = "returned" =>
        /\ retry.outcomes \in { << "ok" >>, << "JSONDecodeError", "ok" >> }
        /\ retry.result = IF retry.yielded = << >> THEN HistoryArg
                          ELSE retry.yielded[Len(retry.yielded)]
    /\ retry.pc = "raised" =>
        \/ /\ retry.raised = "JSONDecodeError"
           /\ retry.outcomes = << "JSONDecodeError", "JSONDecodeError" >>
        \/ /\ retry.raised = "Exception"
           /\ retry.outcomes \in { << "Exception" >>, << "JSONDecodeError", "Exception" >> }

\* the first attempt ended in a JSONDecodeError and the second one has
\* returned, after yielding a skipped chunk and two message lists
C29_Witness ==
    /\ retry.pc = "returned"
    /\ retry.outcomes = << "JSONDecodeError", "ok" >>
    /\ retry.chunks = 3 /\ Len(retry.yielded) = 2
    /\ retry.result = << "user", "ai", "tool" >>
    /\ retry.on_messages_calls = 2

====
